---- MODULE Spec2Model ----
(***************************************************************************)
(* A model of the Ryanair price tracker (src/src/ryanair_scraper.py).      *)
(*                                                                         *)
(* Strings are sequences of one-character strings, so that whitespace      *)
(* normalisation and regular-expression matching are computed character by *)
(* character.  Optional[str] is a set with at most one element.            *)
(***************************************************************************)
EXTENDS Integers, Sequences, FiniteSets, TLC

(***************************************************************************)
(* Bounds of the model.                                                    *)
(***************************************************************************)
\* longest visible text of an element handed to _extract_element_text
MaxTextLen == 2
\* most tokens of a text handed to _extract_price_from_text
MaxPriceTokens == 4
\* most elements one selector resolves to
MaxCards == 4

(***************************************************************************)
(* Characters.                                                             *)
(***************************************************************************)
Whitespace == {" ", "\t", "\n"}
Digits == {"0", "1", "2", "3", "4", "5", "6", "7", "8", "9"}
Letters ==
  {"A", "B", "C", "D", "E", "F", "G", "H", "I", "J", "K", "L", "M",
   "N", "O", "P", "Q", "R", "S", "T", "U", "V", "W", "X", "Y", "Z",
   "a", "b", "c", "d", "e", "f", "g", "h", "i", "j", "k", "l", "m",
   "n", "o", "p", "q", "r", "s", "t", "u", "v", "w", "x", "y", "z"}
\* the characters the regular expressions' \w and \b treat as word characters
WordChars == Letters \cup Digits \cup {"_"}

\* all sequences over alphabet of length at most n
RECURSIVE StrsUpTo(_, _)
StrsUpTo(alphabet, n) ==
  IF n = 0 THEN {<<>>}
  ELSE LET shorter == StrsUpTo(alphabet, n - 1)
       IN shorter \cup {Append(s, c) : s \in shorter, c \in alphabet}

\* the concatenation of a sequence of strings
RECURSIVE Concat(_)
Concat(parts) ==
  IF parts = <<>> THEN <<>> ELSE Head(parts) \o Concat(Tail(parts))

(***************************************************************************)
(* RyanairScraper._clean_text: " ".join(text.split())                      *)
(***************************************************************************)
\* str.split(): the maximal runs of non-whitespace characters, in order
RECURSIVE SplitWords(_, _, _)
SplitWords(text, word, words) ==
  IF text = <<>>
  THEN IF word = <<>> THEN words ELSE Append(words, word)
  ELSE IF Head(text) \in Whitespace
       THEN SplitWords(Tail(text), <<>>,
                       IF word = <<>> THEN words ELSE Append(words, word))
       ELSE SplitWords(Tail(text), Append(word, Head(text)), words)

\* " ".join(words)
RECURSIVE JoinWords(_)
JoinWords(words) ==
  IF words = <<>> THEN <<>>
  ELSE IF Len(words) = 1 THEN Head(words)
  ELSE Head(words) \o <<" ">> \o JoinWords(Tail(words))

CleanText(text) == JoinWords(SplitWords(text, <<>>, <<>>))

\* str.strip()
RECURSIVE StripLeft(_)
StripLeft(s) ==
  IF s # <<>> /\ Head(s) \in Whitespace THEN StripLeft(Tail(s)) ELSE s

RECURSIVE StripRight(_)
StripRight(s) ==
  IF s # <<>> /\ s[Len(s)] \in Whitespace
  THEN StripRight(SubSeq(s, 1, Len(s) - 1)) ELSE s

Strip(s) == StripRight(StripLeft(s))

(***************************************************************************)
(* Regular expressions, as Python's re matches them: backtracking, greedy  *)
(* quantifiers, alternatives tried left to right.  Ends(node, s, i) is the *)
(* sequence of positions at which a match of node that starts at position  *)
(* i can end, in the order the backtracking matcher tries them.            *)
(***************************************************************************)
CharSet(chars) == [op |-> "set", chars |-> chars]
Cat(parts) == [op |-> "seq", parts |-> parts]
Opt(sub) == [op |-> "opt", sub |-> sub]
Star(sub) == [op |-> "star", sub |-> sub]
Alt(subs) == [op |-> "alt", subs |-> subs]
WordBoundary == [op |-> "wb"]
Plus(sub) == Cat(<<sub, Star(sub)>>)
Literal(word) == Cat([k \in 1..Len(word) |-> CharSet({word[k]})])

\* \b: exactly one of the characters before and after position i is a word character
IsWordBoundary(s, i) ==
  LET before == i > 1 /\ s[i - 1] \in WordChars
      after == i <= Len(s) /\ s[i] \in WordChars
  IN before # after

\* the positions after start in ends (a repetition must consume something)
RECURSIVE Advancing(_, _)
Advancing(ends, start) ==
  IF ends = <<>> THEN <<>>
  ELSE IF Head(ends) > start
       THEN <<Head(ends)>> \o Advancing(Tail(ends), start)
       ELSE Advancing(Tail(ends), start)

RECURSIVE Ends(_, _, _), EndsFrom(_, _, _), EndsOfParts(_, _, _), EndsOfAlt(_, _, _)
Ends(node, s, i) ==
  CASE node.op = "set" ->
         IF i <= Len(s) /\ s[i] \in node.chars THEN <<i + 1>> ELSE <<>>
    [] node.op = "wb" -> IF IsWordBoundary(s, i) THEN <<i>> ELSE <<>>
    [] node.op = "seq" -> EndsOfParts(node.parts, s, <<i>>)
    [] node.op = "opt" -> Ends(node.sub, s, i) \o <<i>>
    [] node.op = "star" ->
         EndsFrom(node, s, Advancing(Ends(node.sub, s, i), i)) \o <<i>>
    [] node.op = "alt" -> EndsOfAlt(node.subs, s, i)

\* the ends of node started at each of starts, in order
EndsFrom(node, s, starts) ==
  IF starts = <<>> THEN <<>>
  ELSE Ends(node, s, Head(starts)) \o EndsFrom(node, s, Tail(starts))

\* the ends of the parts matched one after the other
EndsOfParts(parts, s, starts) ==
  IF parts = <<>> THEN starts
  ELSE EndsOfParts(Tail(parts), s, EndsFrom(Head(parts), s, starts))

\* the ends of the alternatives, the first alternative's first
EndsOfAlt(subs, s, i) ==
  IF subs = <<>> THEN <<>>
  ELSE Ends(Head(subs), s, i) \o EndsOfAlt(Tail(subs), s, i)

\* no match
NoMatch == <<>>

\* re.search(pattern, s) from position i on: the first position at which the
\* pattern matches, with the first end the matcher finds there
RECURSIVE SearchFrom(_, _, _)
SearchFrom(pattern, s, i) ==
  IF i > Len(s) + 1 THEN NoMatch
  ELSE LET ends == Ends(pattern, s, i)
       IN IF ends # <<>> THEN <<i, Head(ends)>>
          ELSE SearchFrom(pattern, s, i + 1)

Search(pattern, s) == SearchFrom(pattern, s, 1)

\* match.group(0)
Group0(s, match) == SubSeq(s, match[1], match[2] - 1)

(***************************************************************************)
(* RyanairScraper._extract_price_from_text                                 *)
(***************************************************************************)
CurrencySymbols == {"£", "€", "$"}
CurrencyCodes == <<Literal(<<"G", "B", "P">>), Literal(<<"E", "U", "R">>),
                   Literal(<<"U", "S", "D">>)>>
\* \d+(?:[.,]\d{2})?
Amount ==
  Cat(<<Plus(CharSet(Digits)),
        Opt(Cat(<<CharSet({".", ","}), CharSet(Digits), CharSet(Digits)>>))>>)
Spaces == Star(CharSet(Whitespace))

SymbolBeforeAmount == Cat(<<CharSet(CurrencySymbols), Spaces, Amount>>)
AmountBeforeSymbol == Cat(<<Amount, Spaces, CharSet(CurrencySymbols)>>)
CodeBeforeAmount ==
  Cat(<<WordBoundary, Alt(CurrencyCodes), Spaces, Amount, WordBoundary>>)
AmountBeforeCode == Cat(<<Amount, Spaces, Alt(CurrencyCodes), WordBoundary>>)

PatternsSwapped ==
  <<AmountBeforeSymbol, SymbolBeforeAmount, CodeBeforeAmount, AmountBeforeCode>>
patterns ==
  <<SymbolBeforeAmount, AmountBeforeSymbol, CodeBeforeAmount, AmountBeforeCode>>

\* for pattern in patterns: match = re.search(...); if match: return ...
RECURSIVE FirstPatternMatch(_, _)
FirstPatternMatch(pats, cleaned) ==
  IF pats = <<>> THEN <<>>
  ELSE LET match == Search(Head(pats), cleaned)
       IN IF match # NoMatch THEN Strip(Group0(cleaned, match))
          ELSE FirstPatternMatch(Tail(pats), cleaned)

ExtractPriceFromText(text) ==
  LET cleaned == CleanText(text)
  IN IF cleaned = <<>> THEN <<>> ELSE FirstPatternMatch(patterns, cleaned)

\* the texts _extract_price_from_text is applied to: up to MaxPriceTokens of
\* these pieces, one after the other
PriceTokens ==
  {<<"£">>, <<"1">>, <<" ">>, <<".">>, <<".", "1", "1">>, <<"G", "B", "P">>,
   <<"a">>}
PriceTexts == {Concat(ts) : ts \in StrsUpTo(PriceTokens, MaxPriceTokens)}

(***************************************************************************)
(* Calls that may raise: the result of a call is the exception it raised   *)
(* ("none" when it returned) and the value it returned.                    *)
(***************************************************************************)
Return(value) == [exc |-> "none", val |-> value]
Raise(exception) == [exc |-> exception, val |-> <<>>]
\* TimeoutException is a subclass of WebDriverException
WebDriverExceptions == {"WebDriverException", "TimeoutException"}

(***************************************************************************)
(* RyanairScraper._extract_element_text.  An element is its visible text   *)
(* (or the exception reading it raises) and, per attribute, what           *)
(* get_attribute does: "none" returns None, "fault" raises a               *)
(* WebDriverException, "str" returns val.                                  *)
(***************************************************************************)
AttributesReversed == <<"data-label", "aria-label", "innerText", "textContent">>
attributes == <<"textContent", "innerText", "aria-label", "data-label">>

NoAttribute == [kind |-> "none", val |-> <<>>]
FaultyAttribute == [kind |-> "fault", val |-> <<>>]
StrAttribute(value) == [kind |-> "str", val |-> value]

\* value = element.get_attribute(attribute), None on WebDriverException;
\* "if value:" keeps the non-empty strings
RECURSIVE AttributeCandidates(_, _)
AttributeCandidates(element, names) ==
  IF names = <<>> THEN <<>>
  ELSE LET got == element.attrs[Head(names)]
           value == IF got.kind = "str" THEN {got.val} ELSE {}
           kept == IF value # {} /\ value # {<<>>} THEN <<got.val>> ELSE <<>>
       IN kept \o AttributeCandidates(element, Tail(names))

\* for candidate in candidates: cleaned = ...; if cleaned: return cleaned
RECURSIVE FirstCleaned(_)
FirstCleaned(candidates) ==
  IF candidates = <<>> THEN <<>>
  ELSE LET cleaned == CleanText(Head(candidates))
       IN IF cleaned # <<>> THEN cleaned ELSE FirstCleaned(Tail(candidates))

ExtractElementText(element) ==
  IF element.textFault # "none" THEN Raise(element.textFault)
  ELSE Return(FirstCleaned(<<element.text>>
                           \o AttributeCandidates(element, attributes)))

\* an element with the given visible text and no attributes
TextElement(text) ==
  [text |-> text, textFault |-> "none",
   attrs |-> [a \in {attributes[k] : k \in DOMAIN attributes} |-> NoAttribute]]

\* an element whose visible text cannot be read
StaleElement(exception) ==
  [text |-> <<>>, textFault |-> exception,
   attrs |-> [a \in {attributes[k] : k \in DOMAIN attributes} |-> NoAttribute]]

\* the elements _extract_element_text is applied to
AttributeNames == {attributes[k] : k \in DOMAIN attributes}
AttributeInputs(a) ==
  {NoAttribute, FaultyAttribute, StrAttribute(<<>>), StrAttribute(<<" ", "\t">>),
   StrAttribute(<<" ", a, "\n", " ", "x", " ">>)}
ElementInputs ==
  {[text |-> t, textFault |-> f, attrs |-> as] :
     t \in StrsUpTo({" ", "v"}, MaxTextLen),
     f \in {"none"},
     as \in {g \in [AttributeNames -> UNION {AttributeInputs(a) : a \in AttributeNames}] :
               \A a \in AttributeNames : g[a] \in AttributeInputs(a)}}
  \cup {[StaleElement(e) EXCEPT !.attrs = as] :
          e \in WebDriverExceptions,
          as \in {[a \in AttributeNames |-> NoAttribute],
                  [a \in AttributeNames |-> StrAttribute(<<" ", a, "\n", " ", "x", " ">>)]}}

(***************************************************************************)
(* SearchConfig and FlightOption.  The run's route, dates and currency are *)
(* parse_args' defaults.                                                   *)
(***************************************************************************)
config ==
  [origin |-> <<"STN">>, destination |-> <<"BGY">>,
   depart_date |-> <<"2026-08-22">>, return_date |-> <<"2026-09-04">>,
   currency |-> <<"GBP">>]

\* main's timestamp, taken once per run
timestamp == <<"2026-11-02T06:00:00">>

FlightOption(price, depart_time, return_time, currency, status, flight_date) ==
  [price |-> price, depart_time |-> depart_time, return_time |-> return_time,
   currency |-> currency, status |-> status, flight_date |-> flight_date]

\* price_text or None
OrNone(price_text) == IF price_text # <<>> THEN {price_text} ELSE {}

StatusAlwaysOk(price_text) == "ok"
\* "ok" if price_text else "missing-price"
StatusOf(price_text) == IF price_text # <<>> THEN "ok" ELSE "missing-price"

\* the record the failure paths return
SyntheticOption(status) ==
  FlightOption({}, <<>>, <<>>, config.currency, status, config.depart_date)

(***************************************************************************)
(* Selector chains.                                                        *)
(***************************************************************************)
CardSelectorsReversed ==
  <<"[data-ref='flight-card-container']", ".flight-card",
    "[data-testid='flight-card']", "[data-ref='flight-card']">>
CardSelectors ==
  <<"[data-ref='flight-card']", "[data-testid='flight-card']", ".flight-card",
    "[data-ref='flight-card-container']">>
price_selectors ==
  <<"[data-ref='price']", "[data-testid='price']", "[data-testid='price-value']",
    "[data-testid='flight-price']", "[data-e2e='flight-price']",
    ".flight-card__price", ".flight-price", ".price">>
time_selectors ==
  <<"[data-ref='flight-time']", "[data-testid='flight-time']",
    ".flight-card__time", ".flight-time", ".flight-info__hour">>
CookieSelectors ==
  <<"button[data-ref='cookie.accept-all']",
    "button[data-ref='cookie.popup.accept-all']",
    "button[data-testid='accept-all-cookies']",
    "button#cookie-popup-with-overlay-accept",
    "//button[contains(.,'accept') and contains(.,'cookie')]">>

SetOf(seq) == {seq[k] : k \in DOMAIN seq}

(***************************************************************************)
(* The page, as the driver shows it to _locate_flight_cards: per card      *)
(* selector, "absent" (the presence wait times out), "elements" (the wait  *)
(* succeeds and find_elements returns n elements, none when they vanished  *)
(* in between), "error" (the driver raises a WebDriverException) or        *)
(* "stalled" (find_elements raises a TimeoutException).                    *)
(***************************************************************************)
Absent == [kind |-> "absent", n |-> 0]
SelectorOutcomes ==
  {[kind |-> k, n |-> 0] : k \in {"absent", "error", "stalled"}}
  \cup {[kind |-> "elements", n |-> n] : n \in 0..MaxCards}
Doms == [SetOf(CardSelectors) -> SelectorOutcomes]
\* the pages a run of main loads: those on which at most one card
\* selector is not absent
DomsOfMain ==
  {d \in Doms : Cardinality({sel \in DOMAIN d : d[sel] # Absent}) <= 1}

\* driver.find_elements(by, selector): handles of the n elements found
FindElements(selector, n) == [i \in 1..n |-> [selector |-> selector, index |-> i]]

(***************************************************************************)
(* RyanairScraper._extract_text.  targets[selector] is what                *)
(* element.find_element does: found with the target element, or not found  *)
(* (NoSuchElementException, a WebDriverException).                         *)
(***************************************************************************)
NotFound == [found |-> FALSE, element |-> TextElement(<<>>)]
Found(element) == [found |-> TRUE, element |-> element]

RECURSIVE ExtractText(_, _)
ExtractText(targets, selectors) ==
  IF selectors = <<>> THEN Return(<<>>)
  ELSE LET target == targets[Head(selectors)]
       IN IF ~target.found THEN ExtractText(targets, Tail(selectors))
          ELSE LET text == ExtractElementText(target.element)
               IN IF text.exc # "none" THEN text
                  ELSE IF text.val # <<>> THEN text
                  ELSE ExtractText(targets, Tail(selectors))

(***************************************************************************)
(* RyanairScraper._extract_times.  found[selector] is what                 *)
(* element.find_elements does: the texts of the targets, or a fault.       *)
(***************************************************************************)
NoTimes == [fault |-> FALSE, texts |-> <<>>]
TimesFault == [fault |-> TRUE, texts |-> <<>>]
TimeTexts(texts) == [fault |-> FALSE, texts |-> texts]

\* [target.text.strip() for target in targets if target.text.strip()]
RECURSIVE StrippedNonEmpty(_)
StrippedNonEmpty(texts) ==
  IF texts = <<>> THEN <<>>
  ELSE (IF Strip(Head(texts)) # <<>> THEN <<Strip(Head(texts))>> ELSE <<>>)
       \o StrippedNonEmpty(Tail(texts))

RECURSIVE ExtractTimes(_, _)
ExtractTimes(found, selectors) ==
  IF selectors = <<>> THEN <<>>
  ELSE LET targets == found[Head(selectors)]
       IN IF targets.fault THEN ExtractTimes(found, Tail(selectors))
          ELSE LET times == StrippedNonEmpty(targets.texts)
               IN IF times # <<>> THEN times
                  ELSE ExtractTimes(found, Tail(selectors))

(***************************************************************************)
(* One iteration of fetch_return_flights' loop over the cards: the         *)
(* FlightOption of a card, or the exception the iteration raises.  A card  *)
(* is its own element, its price targets and its time targets.             *)
(***************************************************************************)
CardOption(card) ==
  LET by_selector == ExtractText(card.price, price_selectors)
      own_text == ExtractElementText(card.element)
      time_texts == ExtractTimes(card.times, time_selectors)
      depart_time == IF Len(time_texts) > 0 THEN time_texts[1] ELSE <<>>
      return_time == IF Len(time_texts) > 1 THEN time_texts[2] ELSE <<>>
      Option(price_text) ==
        Return(FlightOption(OrNone(price_text), depart_time, return_time,
                            config.currency, StatusOf(price_text),
                            config.depart_date))
  IN IF by_selector.exc # "none" THEN by_selector
     ELSE IF by_selector.val # <<>> THEN Option(by_selector.val)
     ELSE IF own_text.exc # "none" THEN own_text
     ELSE Option(ExtractPriceFromText(own_text.val))

NoPriceTargets == [sel \in SetOf(price_selectors) |-> NotFound]
NoTimeTargets == [sel \in SetOf(time_selectors) |-> NoTimes]

\* the cards a page shows
CardInputs ==
  { \* the price under the first price selector, two times under the first
    [element |-> TextElement(<<"a">>),
     price |-> [NoPriceTargets EXCEPT
                  !["[data-ref='price']"] = Found(TextElement(<<" ", "£", "1", "\n">>))],
     times |-> [NoTimeTargets EXCEPT
                  !["[data-ref='flight-time']"] =
                     TimeTexts(<<<<"06:30">>, <<" ", "08:45", " ">>>>)]],
    \* no price target: the price is in the card's text; one time, found
    \* after a fault and a blank target
    [element |-> TextElement(<<"a", " ", "1", "£", " ", "£", "2">>),
     price |-> [NoPriceTargets EXCEPT
                  ![".price"] = Found(TextElement(<<" ">>))],
     times |-> [NoTimeTargets EXCEPT
                  !["[data-ref='flight-time']"] = TimesFault,
                  ![".flight-time"] = TimeTexts(<<<<" ">>, <<"12:10">>>>)]],
    \* no price anywhere and no times
    [element |-> TextElement(<<"a">>), price |-> NoPriceTargets,
     times |-> NoTimeTargets],
    \* a card that went stale: reading its text raises
    [element |-> StaleElement("WebDriverException"), price |-> NoPriceTargets,
     times |-> NoTimeTargets],
    \* a card the driver times out on
    [element |-> StaleElement("TimeoutException"), price |-> NoPriceTargets,
     times |-> NoTimeTargets] }

(***************************************************************************)
(* RyanairScraper._extract_page_text and the page-wide fallback of         *)
(* fetch_return_flights.  A page is, per price selector, "absent" (the     *)
(* presence wait times out) or the elements find_elements returns, and its *)
(* body (found or not).                                                    *)
(***************************************************************************)
NoElements == [present |-> FALSE, elements |-> <<>>]
Elements(elements) == [present |-> TRUE, elements |-> elements]

\* for element in elements: text = ...; if text: return text
RECURSIVE FirstElementText(_)
FirstElementText(elements) ==
  IF elements = <<>> THEN Return(<<>>)
  ELSE LET text == ExtractElementText(Head(elements))
       IN IF text.exc # "none" THEN text
          ELSE IF text.val # <<>> THEN text
          ELSE FirstElementText(Tail(elements))

RECURSIVE ExtractPageText(_, _)
ExtractPageText(found, selectors) ==
  IF selectors = <<>> THEN Return(<<>>)
  ELSE LET here == found[Head(selectors)]
       IN IF ~here.present THEN ExtractPageText(found, Tail(selectors))
          ELSE LET text == FirstElementText(here.elements)
               IN IF text.exc # "none" THEN text
                  ELSE IF text.val # <<>> THEN text
                  ELSE ExtractPageText(found, Tail(selectors))

\* the "if not flight_cards:" branch: the list returned, or the exception raised
PageOption(page) ==
  LET by_selector == ExtractPageText(page.price, price_selectors)
      body_text == ExtractElementText(page.body.element)
      Option(price_text) ==
        Return(<<FlightOption(OrNone(price_text), <<>>, <<>>, config.currency,
                              StatusOf(price_text), config.depart_date)>>)
  IN IF by_selector.exc # "none" THEN by_selector
     ELSE IF by_selector.val # <<>> THEN Option(by_selector.val)
     ELSE IF ~page.body.found THEN Option(<<>>)
     ELSE IF body_text.exc # "none" THEN body_text
     ELSE Option(ExtractPriceFromText(body_text.val))

NoPriceElements == [sel \in SetOf(price_selectors) |-> NoElements]

\* the pages without cards
PageInputs ==
  { \* no price element; the body's text holds no price
    [price |-> NoPriceElements, body |-> Found(TextElement(<<"a", " ", "1">>))],
    \* no price element; the body's text holds a price
    [price |-> NoPriceElements,
     body |-> Found(TextElement(<<"a", " ", "1", " ", "G", "B", "P">>))],
    \* a price element under the third price selector, after an empty one
    [price |-> [NoPriceElements EXCEPT
                  !["[data-testid='price-value']"] =
                     Elements(<<TextElement(<<" ">>), TextElement(<<"£", "1">>)>>)],
     body |-> Found(TextElement(<<"a">>))],
    \* nothing, and the body cannot be found
    [price |-> NoPriceElements, body |-> NotFound],
    \* a price element that went stale
    [price |-> [NoPriceElements EXCEPT
                  !["[data-ref='price']"] =
                     Elements(<<StaleElement("WebDriverException")>>)],
     body |-> Found(TextElement(<<"a">>))],
    \* a body the driver times out on
    [price |-> NoPriceElements, body |-> Found(StaleElement("TimeoutException"))] }

(***************************************************************************)
(* The outbound/return split of fetch_return_flights.                      *)
(***************************************************************************)
SplitAlways(options) ==
  [idx \in DOMAIN options |->
     [options[idx] EXCEPT
        !.flight_date = IF idx - 1 < Len(options) \div 2
                        THEN config.depart_date ELSE config.return_date]]
SplitOutboundReturn(options) ==
  IF Len(options) > 1 /\ Len(options) % 2 = 0
  THEN LET midpoint == Len(options) \div 2
       IN [idx \in DOMAIN options |->
             FlightOption(options[idx].price, options[idx].depart_time,
                          options[idx].return_time, options[idx].currency,
                          options[idx].status,
                          IF idx - 1 < midpoint
                          THEN config.depart_date ELSE config.return_date)]
  ELSE options

(***************************************************************************)
(* format_flight_datetime, main's row and append_csv.  A file is whether   *)
(* it exists and its lines; a line is the sequence of its cells.           *)
(***************************************************************************)
CSV_HEADERS ==
  <<"timestamp_utc", "origin", "destination", "departure_date", "arrival_date",
    "price", "currency", "status">>

FormatFlightDatetime(date_str, time_str) ==
  IF time_str # <<>> THEN date_str \o <<"T">> \o time_str ELSE date_str

\* flight.price or ""
OrEmpty(price) == IF price = {} THEN <<>> ELSE CHOOSE p \in price : TRUE

\* the status cell of a row
StatusCell(status) == <<status>>

RowOf(flight) ==
  [timestamp_utc |-> timestamp,
   origin |-> config.origin,
   destination |-> config.destination,
   departure_date |-> FormatFlightDatetime(flight.flight_date, flight.depart_time),
   arrival_date |-> FormatFlightDatetime(flight.flight_date, flight.return_time),
   price |-> OrEmpty(flight.price),
   currency |-> flight.currency,
   status |-> StatusCell(flight.status)]

\* writer.writeheader()
HeaderLine == [k \in DOMAIN CSV_HEADERS |-> <<CSV_HEADERS[k]>>]
\* writer.writerow(row): the cells in header order, empty where the row has no key
RowLine(row) ==
  [k \in DOMAIN CSV_HEADERS |->
     IF CSV_HEADERS[k] \in DOMAIN row THEN row[CSV_HEADERS[k]] ELSE <<>>]

NoFile == [exists |-> FALSE, lines |-> <<>>]

AppendCsvAlwaysHeader(file, row) ==
  [exists |-> TRUE, lines |-> file.lines \o <<HeaderLine, RowLine(row)>>]
AppendCsv(file, row) ==
  LET file_exists == file.exists
  IN [exists |-> TRUE,
      lines |-> file.lines
                \o (IF ~file_exists THEN <<HeaderLine>> ELSE <<>>)
                \o <<RowLine(row)>>]

(***************************************************************************)
(* State.                                                                  *)
(***************************************************************************)
VARIABLES
  elIn,        \* the element _extract_element_text is called with
  elOut,       \* its result: {} before the call, then {the call's result}
  priceIn,     \* the text _extract_price_from_text is called with
  priceOut,    \* its result: {} before the call, then {the string returned}
  entry,       \* what was called: "main", "locate", "append_csv", "text"
  pc,          \* where the call is
  debugDir,    \* whether debug_dir is set
  dom,         \* what each card selector resolves to on the page
  csvAtStart,  \* the CSV file before the call
  navCount,    \* the number of driver.get calls
  cookieIdx,   \* _accept_cookies: the candidate tried next (0 outside the loop)
  clicks,      \* _accept_cookies: the number of button.click() calls
  locIdx,      \* _locate_flight_cards: the candidate tried next (0 outside)
  attempted,   \* _locate_flight_cards: the selectors waited on, in order
  flightCards, \* the cards _locate_flight_cards returned
  cardIdx,     \* fetch_return_flights: the card extracted next (0 outside)
  options,     \* fetch_return_flights: the options list
  assembled,   \* the options list as it was before the split pass
  failure,     \* the label of the except clause being run ("none" outside)
  raised,      \* the exception fetch_return_flights caught, where, and how many
               \* options the card loop had gathered by then
  flights,     \* the list fetch_return_flights returned
  returnedAt,  \* the return statement it came from ("none" before)
  pending,     \* the exception propagating out of the call ("none" if none)
  captures,    \* the labels _save_debug_artifacts was called with, in order
  artifacts,   \* the files in debug_dir: <<label, extension>>
  csv,         \* the CSV file
  rowIdx,      \* main: the flight written next (0 outside the loop)
  appendCalls, \* the number of append_csv calls that returned
  driver,      \* "none", "running" or "quit"
  closeCalls   \* the number of scraper.close() calls

textVars == <<elIn, elOut, priceIn, priceOut>>
envVars == <<debugDir, dom, csvAtStart>>
cookieVars == <<cookieIdx, clicks>>
locateVars == <<locIdx, attempted, flightCards>>
cardVars == <<cardIdx, options, assembled>>
resultVars == <<flights, returnedAt>>
debugVars == <<captures, artifacts>>
csvVars == <<csv, rowIdx, appendCalls>>
driverVars == <<driver, closeCalls>>
flowVars ==
  <<entry, pc, envVars, navCount, cookieVars, locateVars, cardVars, failure, raised,
    resultVars, pending, debugVars, csvVars, driverVars>>
vars == <<textVars, flowVars>>

\* nothing is being resolved
TextIdle ==
  /\ elIn = TextElement(<<>>)
  /\ elOut = {}
  /\ priceIn = <<>>
  /\ priceOut = {}

\* the state of a call of entry point e on page d with CSV file f
\* no exception has reached an except clause of fetch_return_flights
NoFault == [exc |-> "none", during |-> "none", gathered |-> 0]
\* the exception an except clause of fetch_return_flights catches
Caught(exception) ==
  [exc |-> exception, during |-> pc, gathered |-> Len(options)]

Called(e, at, d, f) ==
  /\ entry = e
  /\ pc = at
  /\ dom = d
  /\ csvAtStart = f
  /\ csv = f
  /\ navCount = 0
  /\ cookieIdx = 0
  /\ clicks = 0
  /\ locIdx = 0
  /\ attempted = <<>>
  /\ flightCards = <<>>
  /\ cardIdx = 0
  /\ options = <<>>
  /\ assembled = <<>>
  /\ failure = "none"
  /\ raised = NoFault
  /\ flights = <<>>
  /\ returnedAt = "none"
  /\ pending = "none"
  /\ captures = <<>>
  /\ artifacts = {}
  /\ rowIdx = 0
  /\ appendCalls = 0
  /\ driver = "none"
  /\ closeCalls = 0

NoPage == [sel \in SetOf(CardSelectors) |-> Absent]

(***************************************************************************)
(* _extract_element_text called on one element.                            *)
(***************************************************************************)
InitElementText ==
  /\ elIn \in ElementInputs
  /\ elOut = {}
  /\ priceIn = <<>>
  /\ priceOut = {}
  /\ debugDir = FALSE
  /\ Called("text", "CALL", NoPage, NoFile)

CallExtractElementText ==
  /\ entry = "text"
  /\ elOut = {}
  /\ elOut' = {ExtractElementText(elIn)}
  /\ UNCHANGED <<elIn, priceIn, priceOut, flowVars>>

NextElementText == CallExtractElementText

SpecElementText == InitElementText /\ [][NextElementText]_vars

(***************************************************************************)
(* _extract_price_from_text called on one text.                            *)
(***************************************************************************)
InitPrice ==
  /\ priceIn \in PriceTexts
  /\ priceOut = {}
  /\ elIn = TextElement(<<>>)
  /\ elOut = {}
  /\ debugDir = FALSE
  /\ Called("text", "CALL", NoPage, NoFile)

CallExtractPriceFromText ==
  /\ entry = "text"
  /\ priceOut = {}
  /\ priceOut' = {ExtractPriceFromText(priceIn)}
  /\ UNCHANGED <<elIn, elOut, priceIn, flowVars>>

NextPrice == CallExtractPriceFromText

SpecPrice == InitPrice /\ [][NextPrice]_vars

(***************************************************************************)
(* append_csv called repeatedly on one path.                               *)
(***************************************************************************)
\* most append_csv calls on the path
MaxAppends == 3

\* a row as main writes it
MainRow(price, status) ==
  RowOf(FlightOption(price, <<"06:30">>, <<>>, config.currency, status,
                     config.depart_date))

\* a file a previous run left
EarlierFile == AppendCsv(NoFile, MainRow({}, "timeout"))

\* the rows append_csv is called with: main's, and rows without a status
RowInputs ==
  {MainRow({<<"£", "1">>}, "ok"), MainRow({}, "missing-price"),
   [timestamp_utc |-> <<"2024-01-01T00:00:00">>, origin |-> <<"STN">>,
    destination |-> <<"BGY">>, departure_date |-> <<"2024-08-22T06:30">>,
    arrival_date |-> <<"2024-08-22T08:45">>, price |-> <<"£", "1">>,
    currency |-> <<"GBP">>],
   [timestamp_utc |-> <<"2024-01-02T00:00:00">>, origin |-> <<"STN">>,
    destination |-> <<"BGY">>, departure_date |-> <<"2024-08-22T12:10">>,
    arrival_date |-> <<"2024-08-22T14:25">>, price |-> <<"£", "2">>,
    currency |-> <<"GBP">>]}

\* a file already at csv_path whose header is not CSV_HEADERS: the header and
\* one row of the columns depart_date, return_date, price, currency, status, notes
OldSchemaFile ==
  [exists |-> TRUE,
   lines |-> << <<<<"depart_date">>, <<"return_date">>, <<"price">>,
                  <<"currency">>, <<"status">>, <<"notes">>>>,
                <<<<"2024-08-22">>, <<"2024-09-04">>, <<"£", "1">>, <<"GBP">>,
                  <<"ok">>, <<>>>> >>]

CsvInputs ==
  {NoFile, EarlierFile, [exists |-> TRUE, lines |-> <<>>], OldSchemaFile}

InitCsv ==
  /\ TextIdle
  /\ debugDir = FALSE
  /\ \E f \in CsvInputs : Called("append_csv", "CALL", NoPage, f)

CallAppendCsv ==
  /\ entry = "append_csv"
  /\ appendCalls < MaxAppends
  /\ \E row \in RowInputs : csv' = AppendCsv(csv, row)
  /\ appendCalls' = appendCalls + 1
  /\ UNCHANGED <<textVars, entry, pc, envVars, navCount, cookieVars, locateVars,
                 cardVars, failure, raised, resultVars, pending, debugVars, rowIdx,
                 driverVars>>

NextCsv == CallAppendCsv

SpecCsv == InitCsv /\ [][NextCsv]_vars

(***************************************************************************)
(* RyanairScraper._locate_flight_cards, one candidate per step.            *)
(***************************************************************************)
\* the except clause of fetch_return_flights' second try an exception lands in
HandlerTimeoutOnly(exception) == "missing-price"
HandlerLabel(exception) ==
  IF exception = "TimeoutException" THEN "missing-price" ELSE "webdriver-error"

\* the selector of the candidate tried next
Candidate == CardSelectors[locIdx]

Locating ==
  /\ pc = "LOCATING_CARDS"
  /\ locIdx \in DOMAIN CardSelectors

\* return cards: to the caller's next statement
LocateReturns(cards) ==
  /\ flightCards' = cards
  /\ locIdx' = 0
  /\ IF entry = "locate"
     THEN pc' = "LOCATED" /\ UNCHANGED cardIdx
     ELSE IF cards = <<>>
     THEN pc' = "PAGE_FALLBACK" /\ UNCHANGED cardIdx
     ELSE pc' = "EXTRACTING" /\ cardIdx' = 1

\* wait.until raises TimeoutException: continue
LocateTimeout ==
  /\ Locating
  /\ dom[Candidate].kind = "absent"
  /\ attempted' = Append(attempted, Candidate)
  /\ locIdx' = locIdx + 1
  /\ UNCHANGED <<textVars, entry, pc, envVars, navCount, cookieVars, flightCards,
                 cardVars, failure, raised, resultVars, pending, debugVars, csvVars,
                 driverVars>>

\* find_elements returns no element: the loop goes on
LocateEmpty ==
  /\ Locating
  /\ dom[Candidate].kind = "elements"
  /\ dom[Candidate].n = 0
  /\ attempted' = Append(attempted, Candidate)
  /\ locIdx' = locIdx + 1
  /\ UNCHANGED <<textVars, entry, pc, envVars, navCount, cookieVars, flightCards,
                 cardVars, failure, raised, resultVars, pending, debugVars, csvVars,
                 driverVars>>

\* find_elements returns cards: return cards
LocateFound ==
  /\ Locating
  /\ dom[Candidate].kind = "elements"
  /\ dom[Candidate].n > 0
  /\ attempted' = Append(attempted, Candidate)
  /\ LocateReturns(FindElements(Candidate, dom[Candidate].n))
  /\ UNCHANGED <<textVars, entry, envVars, navCount, cookieVars, options,
                 assembled, failure, raised, resultVars, pending, debugVars, csvVars,
                 driverVars>>

\* the driver raises: the exception leaves _locate_flight_cards
LocateRaises ==
  /\ Locating
  /\ dom[Candidate].kind \in {"error", "stalled"}
  /\ attempted' = Append(attempted, Candidate)
  /\ locIdx' = 0
  /\ LET exception == IF dom[Candidate].kind = "stalled"
                      THEN "TimeoutException" ELSE "WebDriverException"
     IN IF entry = "locate"
        THEN pc' = "LOCATE_RAISED" /\ pending' = exception
             /\ UNCHANGED <<failure, raised>>
        ELSE pc' = "FAILING" /\ failure' = HandlerLabel(exception)
             /\ raised' = Caught(exception) /\ UNCHANGED pending
  /\ UNCHANGED <<textVars, entry, envVars, navCount, cookieVars, flightCards,
                 cardVars, resultVars, debugVars, csvVars, driverVars>>

\* the loop ends: return []
LocateExhausted ==
  /\ pc = "LOCATING_CARDS"
  /\ locIdx = Len(CardSelectors) + 1
  /\ LocateReturns(<<>>)
  /\ UNCHANGED <<textVars, entry, envVars, navCount, cookieVars, attempted,
                 options, assembled, failure, raised, resultVars, pending, debugVars,
                 csvVars, driverVars>>

NextLocate ==
  \/ LocateTimeout
  \/ LocateEmpty
  \/ LocateFound
  \/ LocateRaises
  \/ LocateExhausted

\* _locate_flight_cards called on a loaded page
InitLocate ==
  /\ TextIdle
  /\ debugDir = FALSE
  /\ \E d \in Doms :
       /\ entry = "locate"
       /\ pc = "LOCATING_CARDS"
       /\ dom = d
       /\ csvAtStart = NoFile
       /\ csv = NoFile
       /\ navCount = 0
       /\ cookieIdx = 0
       /\ clicks = 0
       /\ locIdx = 1
       /\ attempted = <<>>
       /\ flightCards = <<>>
       /\ cardIdx = 0
       /\ options = <<>>
       /\ assembled = <<>>
       /\ failure = "none"
       /\ raised = NoFault
       /\ flights = <<>>
       /\ returnedAt = "none"
       /\ pending = "none"
       /\ captures = <<>>
       /\ artifacts = {}
       /\ rowIdx = 0
       /\ appendCalls = 0
       /\ driver = "running"
       /\ closeCalls = 0

SpecLocate == InitLocate /\ [][NextLocate]_vars

(***************************************************************************)
(* main and fetch_return_flights.                                          *)
(***************************************************************************)
\* scraper = RyanairScraper(...): Chrome starts
StartDriver ==
  /\ pc = "STARTING"
  /\ driver' = "running"
  /\ pc' = "NAVIGATING"
  /\ UNCHANGED <<textVars, entry, envVars, navCount, cookieVars, locateVars,
                 cardVars, failure, raised, resultVars, pending, debugVars, csvVars,
                 closeCalls>>

\* _build_driver re-raises the WebDriverException of webdriver.Chrome
StartDriverFails ==
  /\ pc = "STARTING"
  /\ pending' = "WebDriverException"
  /\ pc' = "CRASHED"
  /\ UNCHANGED <<textVars, entry, envVars, navCount, cookieVars, locateVars,
                 cardVars, failure, raised, resultVars, debugVars, csvVars, driverVars>>

\* self.driver.get(search_url) returns
NavigateLoads ==
  /\ pc = "NAVIGATING"
  /\ navCount' = navCount + 1
  /\ pc' = "COOKIE_DISMISS"
  /\ cookieIdx' = 1
  /\ UNCHANGED <<textVars, entry, envVars, clicks, locateVars, cardVars, failure, raised,
                 resultVars, pending, debugVars, csvVars, driverVars>>

NavigateRetries ==
  /\ pc = "NAVIGATING"
  /\ navCount < 2
  /\ navCount' = navCount + 1
  /\ UNCHANGED <<textVars, entry, pc, envVars, cookieVars, locateVars, cardVars,
                 failure, raised, resultVars, pending, debugVars, csvVars, driverVars>>

\* self.driver.get raises TimeoutException: the first except clause
NavigateTimesOut ==
  /\ pc = "NAVIGATING"
  /\ navCount' = navCount + 1
  /\ pc' = "FAILING"
  /\ failure' = "timeout"
  /\ raised' = Caught("TimeoutException")
  /\ UNCHANGED <<textVars, entry, envVars, cookieVars, locateVars, cardVars,
                 resultVars, pending, debugVars, csvVars, driverVars>>

\* self.driver.get raises another WebDriverException: no except clause of the
\* first try takes it, and it leaves fetch_return_flights for main's finally
NavigateFails ==
  /\ pc = "NAVIGATING"
  /\ navCount' = navCount + 1
  /\ pending' = "WebDriverException"
  /\ pc' = "CLOSING"
  /\ UNCHANGED <<textVars, entry, envVars, cookieVars, locateVars, cardVars,
                 failure, raised, resultVars, debugVars, csvVars, driverVars>>

(***************************************************************************)
(* RyanairScraper._accept_cookies, one candidate per step.                 *)
(***************************************************************************)
DismissingCookies ==
  /\ pc = "COOKIE_DISMISS"
  /\ cookieIdx \in DOMAIN CookieSelectors

\* return: fetch_return_flights goes on to _locate_flight_cards
CookiesReturn ==
  /\ cookieIdx' = 0
  /\ pc' = "LOCATING_CARDS"
  /\ locIdx' = 1

\* the wait raises TimeoutException: continue
CookieNotClickable ==
  /\ DismissingCookies
  /\ cookieIdx' = cookieIdx + 1
  /\ UNCHANGED <<textVars, entry, pc, envVars, navCount, clicks, locateVars,
                 cardVars, failure, raised, resultVars, pending, debugVars, csvVars,
                 driverVars>>

\* the button is clickable and button.click() returns: return
CookieClicked ==
  /\ DismissingCookies
  /\ clicks' = clicks + 1
  /\ CookiesReturn
  /\ UNCHANGED <<textVars, entry, envVars, navCount, attempted, flightCards,
                 cardVars, failure, raised, resultVars, pending, debugVars, csvVars,
                 driverVars>>

\* button.click() raises TimeoutException: continue
CookieClickTimesOut ==
  /\ DismissingCookies
  /\ clicks' = clicks + 1
  /\ cookieIdx' = cookieIdx + 1
  /\ UNCHANGED <<textVars, entry, pc, envVars, navCount, locateVars, cardVars,
                 failure, raised, resultVars, pending, debugVars, csvVars, driverVars>>

\* button.click() raises another WebDriverException: logged, return
CookieClickFails ==
  /\ DismissingCookies
  /\ clicks' = clicks + 1
  /\ CookiesReturn
  /\ UNCHANGED <<textVars, entry, envVars, navCount, attempted, flightCards,
                 cardVars, failure, raised, resultVars, pending, debugVars, csvVars,
                 driverVars>>

\* the wait raises a WebDriverException other than the timeout: logged, return
CookieWaitFails ==
  /\ DismissingCookies
  /\ CookiesReturn
  /\ UNCHANGED <<textVars, entry, envVars, navCount, clicks, attempted,
                 flightCards, cardVars, failure, raised, resultVars, pending, debugVars,
                 csvVars, driverVars>>

\* the loop ends without a match
CookiesExhausted ==
  /\ pc = "COOKIE_DISMISS"
  /\ cookieIdx = Len(CookieSelectors) + 1
  /\ CookiesReturn
  /\ UNCHANGED <<textVars, entry, envVars, navCount, clicks, attempted,
                 flightCards, cardVars, failure, raised, resultVars, pending, debugVars,
                 csvVars, driverVars>>

(***************************************************************************)
(* fetch_return_flights after _locate_flight_cards.                        *)
(***************************************************************************)
\* return flights: main's loop starts
FetchReturns(list, at) ==
  /\ flights' = list
  /\ returnedAt' = at
  /\ pc' = "APPENDING"
  /\ rowIdx' = 1

\* if not flight_cards: the page-wide fallback returns its one option
PageFallbackReturns ==
  /\ pc = "PAGE_FALLBACK"
  /\ \E page \in PageInputs :
       /\ PageOption(page).exc = "none"
       /\ FetchReturns(PageOption(page).val, "no-cards")
  /\ UNCHANGED <<textVars, entry, envVars, navCount, cookieVars, locateVars,
                 cardVars, failure, raised, pending, debugVars, csv, appendCalls,
                 driverVars>>

\* the page-wide fallback raises
PageFallbackRaises ==
  /\ pc = "PAGE_FALLBACK"
  /\ \E page \in PageInputs :
       /\ PageOption(page).exc # "none"
       /\ failure' = HandlerLabel(PageOption(page).exc)
       /\ raised' = Caught(PageOption(page).exc)
  /\ pc' = "FAILING"
  /\ UNCHANGED <<textVars, entry, envVars, navCount, cookieVars, locateVars,
                 cardVars, resultVars, pending, debugVars, csvVars, driverVars>>

ExtractingCard ==
  /\ pc = "EXTRACTING"
  /\ cardIdx \in DOMAIN flightCards

\* one iteration of "for card in flight_cards": options.append(...)
ExtractCardAppends ==
  /\ ExtractingCard
  /\ \E card \in CardInputs :
       /\ CardOption(card).exc = "none"
       /\ options' = Append(options, CardOption(card).val)
  /\ cardIdx' = cardIdx + 1
  /\ UNCHANGED <<textVars, entry, pc, envVars, navCount, cookieVars, locateVars,
                 assembled, failure, raised, resultVars, pending, debugVars, csvVars,
                 driverVars>>

\* the iteration raises: the options gathered so far are dropped
ExtractCardRaises ==
  /\ ExtractingCard
  /\ \E card \in CardInputs :
       /\ CardOption(card).exc # "none"
       /\ failure' = HandlerLabel(CardOption(card).exc)
       /\ raised' = Caught(CardOption(card).exc)
  /\ pc' = "FAILING"
  /\ cardIdx' = 0
  /\ options' = <<>>
  /\ UNCHANGED <<textVars, entry, envVars, navCount, cookieVars, locateVars,
                 assembled, resultVars, pending, debugVars, csvVars, driverVars>>

\* after the loop: the split pass, and return options
Assemble ==
  /\ pc = "EXTRACTING"
  /\ cardIdx = Len(flightCards) + 1
  /\ assembled' = options
  /\ options' = SplitOutboundReturn(options)
  /\ cardIdx' = 0
  /\ FetchReturns(SplitOutboundReturn(options), "cards")
  /\ UNCHANGED <<textVars, entry, envVars, navCount, cookieVars, locateVars,
                 failure, raised, pending, debugVars, csv, appendCalls, driverVars>>

(***************************************************************************)
(* The except clauses: _save_debug_artifacts(label), then the synthetic    *)
(* option is returned.                                                     *)
(***************************************************************************)
\* _save_debug_artifacts(failure) leaves files in debug_dir and returns;
\* fetch_return_flights returns the synthetic option
FailureReturns(files) ==
  /\ pc = "FAILING"
  /\ captures' = Append(captures, failure)
  /\ artifacts' = artifacts \cup files
  /\ failure' = "none"
  /\ raised' = raised
  /\ FetchReturns(<<SyntheticOption(failure)>>, "except")
  /\ UNCHANGED <<textVars, entry, envVars, navCount, cookieVars, locateVars,
                 cardVars, pending, csv, appendCalls, driverVars>>

\* if not self.debug_dir: return
SaveSkipped ==
  /\ ~debugDir
  /\ FailureReturns({})

\* the screenshot and the page source are written
SaveWritten ==
  /\ debugDir
  /\ FailureReturns({<<failure, "png">>, <<failure, "html">>})

\* save_screenshot raises a WebDriverException: logged
SaveScreenshotFails ==
  /\ debugDir
  /\ FailureReturns({})

\* driver.page_source raises a WebDriverException: logged
SavePageSourceFails ==
  /\ debugDir
  /\ FailureReturns({<<failure, "png">>})

(***************************************************************************)
(* main's loop over the flights, and its finally clause.                   *)
(***************************************************************************)
\* append_csv(Path(args.csv_path), row)
AppendRow ==
  /\ pc = "APPENDING"
  /\ rowIdx \in DOMAIN flights
  /\ csv' = AppendCsv(csv, RowOf(flights[rowIdx]))
  /\ appendCalls' = appendCalls + 1
  /\ rowIdx' = rowIdx + 1
  /\ UNCHANGED <<textVars, entry, pc, envVars, navCount, cookieVars, locateVars,
                 cardVars, failure, raised, resultVars, pending, debugVars, driverVars>>

\* append_csv raises OSError (the path cannot be opened for appending)
AppendRaises ==
  /\ pc = "APPENDING"
  /\ rowIdx \in DOMAIN flights
  /\ pending' = "OSError"
  /\ pc' = "CLOSING"
  /\ UNCHANGED <<textVars, entry, envVars, navCount, cookieVars, locateVars,
                 cardVars, failure, raised, resultVars, debugVars, csvVars, driverVars>>

\* the loop ends
AppendDone ==
  /\ pc = "APPENDING"
  /\ rowIdx = Len(flights) + 1
  /\ pc' = "CLOSING"
  /\ UNCHANGED <<textVars, entry, envVars, navCount, cookieVars, locateVars,
                 cardVars, failure, raised, resultVars, pending, debugVars, csvVars,
                 driverVars>>

CloseOnReturnOnly ==
  /\ pc = "CLOSING"
  /\ closeCalls' = IF pending = "none" THEN closeCalls + 1 ELSE closeCalls
  /\ driver' = IF pending = "none" THEN "quit" ELSE driver
  /\ pc' = IF pending = "none" THEN "DONE" ELSE "CRASHED"
  /\ UNCHANGED <<textVars, entry, envVars, navCount, cookieVars, locateVars,
                 cardVars, failure, raised, resultVars, pending, debugVars, csvVars>>

\* finally: scraper.close(); then return 0, or the exception goes on
Close ==
  /\ pc = "CLOSING"
  /\ closeCalls' = closeCalls + 1
  /\ driver' = "quit"
  /\ pc' = IF pending = "none" THEN "DONE" ELSE "CRASHED"
  /\ UNCHANGED <<textVars, entry, envVars, navCount, cookieVars, locateVars,
                 cardVars, failure, raised, resultVars, pending, debugVars, csvVars>>

Init ==
  /\ TextIdle
  /\ debugDir \in BOOLEAN
  /\ \E d \in DomsOfMain, f \in {NoFile, EarlierFile} :
       Called("main", "STARTING", d, f)

Next ==
  \/ StartDriver
  \/ StartDriverFails
  \/ NavigateLoads
  \/ NavigateTimesOut
  \/ NavigateFails
  \/ CookieNotClickable
  \/ CookieClicked
  \/ CookieClickTimesOut
  \/ CookieClickFails
  \/ CookieWaitFails
  \/ CookiesExhausted
  \/ LocateTimeout
  \/ LocateEmpty
  \/ LocateFound
  \/ LocateRaises
  \/ LocateExhausted
  \/ PageFallbackReturns
  \/ PageFallbackRaises
  \/ ExtractCardAppends
  \/ ExtractCardRaises
  \/ Assemble
  \/ SaveSkipped
  \/ SaveWritten
  \/ SaveScreenshotFails
  \/ SavePageSourceFails
  \/ AppendRow
  \/ AppendRaises
  \/ AppendDone
  \/ Close

Spec == Init /\ [][Next]_vars

(***************************************************************************)
(*                              Properties                                 *)
(***************************************************************************)

\* the header the CSV file starts with
DeclaredHeader ==
  <<<<"timestamp_utc">>, <<"origin">>, <<"destination">>, <<"departure_date">>,
    <<"arrival_date">>, <<"price">>, <<"currency">>, <<"status">>>>

\* C1: each append_csv call appends exactly one data row, and the header before
\* it if and only if the file does not exist when the call is made; so after
\* n >= 1 calls on a path that did not exist, the file holds n + 1 lines, of
\* which the first, and no other, is the header.
C1_HeaderOnce ==
  /\ [](csvAtStart = NoFile /\ appendCalls >= 1 =>
          /\ Len(csv.lines) = appendCalls + 1
          /\ csv.lines[1] = DeclaredHeader
          /\ \A i \in 2..Len(csv.lines) : csv.lines[i] # DeclaredHeader)
  /\ [][appendCalls' = appendCalls + 1 =>
          LET old == Len(csv.lines)
              new == Len(csv'.lines)
          IN /\ csv'.exists
             /\ new = old + (IF csv.exists THEN 1 ELSE 2)
             /\ SubSeq(csv'.lines, 1, old) = csv.lines
             /\ ~csv.exists => csv'.lines[old + 1] = DeclaredHeader
             /\ csv'.lines[new] # DeclaredHeader]_vars

\* C1 witness: three rows were appended to a path that did not exist: four lines
C1_Witness ==
  /\ entry = "append_csv"
  /\ csvAtStart = NoFile
  /\ appendCalls = 3
  /\ Len(csv.lines) = 4
  /\ csv.lines[1] = DeclaredHeader

\* the file csv_path names exists and starts with a header other than the
\* current one
UnderOtherSchema(file) ==
  /\ file.exists
  /\ file.lines # <<>>
  /\ file.lines[1] # DeclaredHeader

\* C11: an append_csv call on an existing file whose header differs from the
\* current header (timestamp_utc, origin, destination, departure_date,
\* arrival_date, price, currency, status) adds no line to that file, so a file
\* never holds rows of two schemas.
C11_NoAppendUnderOtherSchema ==
  [][appendCalls' = appendCalls + 1 /\ UnderOtherSchema(csv)
       => csv'.lines = csv.lines]_vars

\* C2: no WebDriver fault raised inside fetch_return_flights, the page
\* navigation included, leaves fetch_return_flights: once the navigation has
\* been attempted, no WebDriverException is propagating to main.
C2_FaultsCaughtAtFetch ==
  navCount >= 1 => pending \notin WebDriverExceptions

\* the list of one synthetic option a failed attempt returns
IsSyntheticList(list) ==
  \E status \in {"timeout", "missing-price", "webdriver-error"} :
    list = <<[price |-> {}, depart_time |-> <<>>, return_time |-> <<>>,
              currency |-> config.currency, status |-> status,
              flight_date |-> config.depart_date]>>

\* C3, as stated: a call that returned loaded the URL once and returned either
\* one option per located card (at least one) or exactly one synthetic option
\* with no price.
C3_CardsOrSynthetic ==
  returnedAt # "none" =>
    /\ navCount = 1
    /\ \/ flightCards # <<>> /\ Len(flights) = Len(flightCards)
       \/ IsSyntheticList(flights)

\* C3, amended: a call that returned loaded the URL once and returned a
\* non-empty list: one option per located card; or, from an except clause,
\* exactly one synthetic option; or, when no card was located, exactly one
\* option of the page-wide fallback, which is the synthetic missing-price
\* option or an option with status ok, a price, no times and the departure
\* date.
C3_CardsSyntheticOrPagePrice ==
  returnedAt # "none" =>
    /\ navCount = 1
    /\ Len(flights) >= 1
    /\ returnedAt = "cards" =>
         flightCards # <<>> /\ Len(flights) = Len(flightCards)
    /\ returnedAt = "except" => IsSyntheticList(flights)
    /\ returnedAt = "no-cards" =>
         /\ flightCards = <<>>
         /\ Len(flights) = 1
         /\ \/ flights = <<[price |-> {}, depart_time |-> <<>>,
                            return_time |-> <<>>, currency |-> config.currency,
                            status |-> "missing-price",
                            flight_date |-> config.depart_date]>>
            \/ /\ flights[1].status = "ok"
               /\ flights[1].price # {}
               /\ flights[1].depart_time = <<>>
               /\ flights[1].return_time = <<>>
               /\ flights[1].currency = config.currency
               /\ flights[1].flight_date = config.depart_date

\* C3 witness: no card was located and the page-wide fallback found a price
C3_Witness ==
  /\ returnedAt = "no-cards"
  /\ flightCards = <<>>
  /\ Len(flights) = 1
  /\ flights[1].status = "ok"
  /\ flights[1].price = {<<"£", "1">>}

\* C4: a run of main that started the browser has appended at least one row
\* when it ends, and the row of a failed capture has an empty price and the
\* status timeout, missing-price or webdriver-error.
C4_RunAppendsRow ==
  pc \in {"DONE", "CRASHED"} /\ driver # "none" =>
    /\ appendCalls >= 1
    /\ returnedAt = "except" =>
         /\ csv.lines[Len(csv.lines)][6] = <<>>
         /\ csv.lines[Len(csv.lines)][8] \in
              {<<"timeout">>, <<"missing-price">>, <<"webdriver-error">>}

\* C5: the options returned for located cards are the assembled options, in
\* number and order, with only flight_date reassigned: to the return date for
\* the second half when their number is even and greater than one, and left at
\* the departure date otherwise.
C5_OutboundReturnSplit ==
  returnedAt = "cards" =>
    LET n == Len(assembled)
    IN /\ n = Len(flightCards)
       /\ Len(flights) = n
       /\ \A idx \in 1..n :
            /\ assembled[idx].flight_date = config.depart_date
            /\ flights[idx].price = assembled[idx].price
            /\ flights[idx].depart_time = assembled[idx].depart_time
            /\ flights[idx].return_time = assembled[idx].return_time
            /\ flights[idx].currency = assembled[idx].currency
            /\ flights[idx].status = assembled[idx].status
            /\ flights[idx].flight_date =
                 IF n > 1 /\ n % 2 = 0 /\ idx > n \div 2
                 THEN config.return_date ELSE config.depart_date

\* C5 witness: four options, the first two outbound and the last two return
C5_Witness ==
  /\ returnedAt = "cards"
  /\ Len(flights) = 4
  /\ flights[1].flight_date = config.depart_date
  /\ flights[2].flight_date = config.depart_date
  /\ flights[3].flight_date = config.return_date
  /\ flights[4].flight_date = config.return_date
  /\ flights[1].status # flights[4].status

\* C6: with debug_dir set, an attempt that returned a failure record (status
\* timeout, missing-price or webdriver-error, no price) from an except clause
\* or from the no-cards path ran the capture of the debug artifacts for that
\* label before it returned.
C6_ArtifactsOnTerminalFailure ==
  /\ debugDir
  /\ returnedAt \in {"except", "no-cards"}
  /\ flights[1].status # "ok"
  => flights[1].status \in SetOf(captures)

\* the statuses of a FlightOption
DeclaredStatuses == {"ok", "missing-price", "timeout", "webdriver-error"}

\* the rows this run of main appended: the lines after those the file had,
\* without the header
RowsOfRun ==
  {i \in (Len(csvAtStart.lines) + 1)..Len(csv.lines) : csv.lines[i] # DeclaredHeader}

\* C7: every option fetch_return_flights returned has one of the four statuses,
\* status ok exactly when it has a non-empty price, and no price exactly when
\* its status is one of the other three; every row main wrote has an empty
\* price cell exactly when its status cell is not ok.
C7_StatusOkIffPrice ==
  /\ \A i \in DOMAIN flights :
       /\ flights[i].status \in DeclaredStatuses
       /\ flights[i].status = "ok" <=>
            (flights[i].price # {} /\ flights[i].price # {<<>>})
       /\ flights[i].price = {} <=>
            flights[i].status \in {"missing-price", "timeout", "webdriver-error"}
  /\ entry = "main" =>
       \A i \in RowsOfRun : csv.lines[i][6] = <<>> <=> csv.lines[i][8] # <<"ok">>

\* C7 witness: main wrote the rows of a list with a priced option and an
\* option without a price
C7_Witness ==
  /\ pc = "DONE"
  /\ appendCalls = Len(flights)
  /\ \E i, j \in DOMAIN flights :
       /\ flights[i].status = "ok"
       /\ flights[j].status = "missing-price"
  /\ \E i, j \in RowsOfRun :
       /\ csv.lines[i][6] = <<>>
       /\ csv.lines[j][6] # <<>>

\* the card selectors, in the order _locate_flight_cards declares them
DeclaredCardSelectors ==
  <<"[data-ref='flight-card']", "[data-testid='flight-card']", ".flight-card",
    "[data-ref='flight-card-container']">>

\* candidate k's presence wait succeeds and it resolves to at least one element
CandidateYields(k) ==
  /\ dom[DeclaredCardSelectors[k]].kind = "elements"
  /\ dom[DeclaredCardSelectors[k]].n >= 1

\* C8: the candidates are waited on in the declared order; when
\* _locate_flight_cards returns and k is the first candidate that yields
\* elements, the result is exactly the elements of candidate k and the
\* candidates waited on are exactly 1..k, in order; when no candidate yields,
\* the result is empty and all candidates were waited on.
C8_FirstYieldingCandidateWins ==
  /\ attempted = SubSeq(DeclaredCardSelectors, 1, Len(attempted))
  /\ pc = "LOCATED" =>
       IF \E k \in DOMAIN DeclaredCardSelectors : CandidateYields(k)
       THEN \E k \in DOMAIN DeclaredCardSelectors :
              /\ CandidateYields(k)
              /\ \A j \in 1..(k - 1) : ~CandidateYields(j)
              /\ Len(flightCards) = dom[DeclaredCardSelectors[k]].n
              /\ \A i \in DOMAIN flightCards :
                   flightCards[i] =
                     [selector |-> DeclaredCardSelectors[k], index |-> i]
              /\ attempted = SubSeq(DeclaredCardSelectors, 1, k)
       ELSE /\ flightCards = <<>>
            /\ attempted = DeclaredCardSelectors

\* C8 witness: the first candidate timed out, the second resolved to nothing,
\* the third won, and the fourth, which would yield too, was not tried
C8_Witness ==
  /\ pc = "LOCATED"
  /\ dom[DeclaredCardSelectors[1]].kind = "absent"
  /\ dom[DeclaredCardSelectors[2]] = [kind |-> "elements", n |-> 0]
  /\ CandidateYields(3)
  /\ CandidateYields(4)
  /\ dom[DeclaredCardSelectors[3]].n # dom[DeclaredCardSelectors[4]].n
  /\ Len(flightCards) = dom[DeclaredCardSelectors[3]].n
  /\ Len(attempted) = 3

\* the order of the attributes the element text resolver falls back to
DeclaredAttributeOrder == <<"textContent", "innerText", "aria-label", "data-label">>

\* attribute number k of elIn can be read and its normalised value is non-empty
AttributeAvailable(k) ==
  LET got == elIn.attrs[DeclaredAttributeOrder[k]]
  IN got.kind = "str" /\ CleanText(got.val) # <<>>

\* C9: when the visible text can be read, _extract_element_text returns (never
\* raises) the normalised visible text if that is non-empty; otherwise the
\* normalised value of the first attribute, in the order textContent,
\* innerText, aria-label, data-label, whose normalised value is non-empty, an
\* attribute whose read raises counting as absent; otherwise the empty string.
C9_ElementTextResolution ==
  \A r \in elOut :
    elIn.textFault = "none" =>
      /\ r.exc = "none"
      /\ IF CleanText(elIn.text) # <<>>
         THEN r.val = CleanText(elIn.text)
         ELSE IF \E k \in DOMAIN DeclaredAttributeOrder : AttributeAvailable(k)
         THEN \E k \in DOMAIN DeclaredAttributeOrder :
                /\ AttributeAvailable(k)
                /\ \A j \in 1..(k - 1) : ~AttributeAvailable(j)
                /\ r.val = CleanText(elIn.attrs[DeclaredAttributeOrder[k]].val)
         ELSE r.val = <<>>

\* C9 witness: the visible text is whitespace only, reading textContent raises,
\* and the result is the normalised innerText although aria-label is available too
C9_Witness ==
  /\ elOut # {}
  /\ elIn.textFault = "none"
  /\ elIn.text # <<>>
  /\ CleanText(elIn.text) = <<>>
  /\ elIn.attrs["textContent"].kind = "fault"
  /\ AttributeAvailable(2)
  /\ AttributeAvailable(3)
  /\ elOut = {Return(<<"innerText", " ", "x">>)}

\* the order the price patterns are applied in
DeclaredPatternOrder ==
  <<SymbolBeforeAmount, AmountBeforeSymbol, CodeBeforeAmount, AmountBeforeCode>>

\* where each pattern matches the normalised text: for pattern number k and
\* position i, the ends of its matches from i, the matcher's first one first
PatternEnds(cleaned) ==
  [k \in DOMAIN DeclaredPatternOrder |->
     [i \in 1..(Len(cleaned) + 1) |-> Ends(DeclaredPatternOrder[k], cleaned, i)]]

\* C10: _extract_price_from_text returns the leftmost match of the first pattern,
\* in the order symbol-before-amount, amount-before-symbol, code-before-amount,
\* amount-before-code, that matches anywhere in the normalised text, whatever
\* later patterns match; the empty string when no pattern matches (an empty or
\* whitespace-only text included); and never a string that starts or ends with
\* whitespace.
C10_FirstPatternLeftmostMatch ==
  \A r \in priceOut :
    LET cleaned == CleanText(priceIn)
        ends == PatternEnds(cleaned)
        Positions == 1..(Len(cleaned) + 1)
    IN /\ r # <<>> => r[1] \notin Whitespace /\ r[Len(r)] \notin Whitespace
       /\ cleaned = <<>> => r = <<>>
       /\ IF \A k \in DOMAIN ends, i \in Positions : ends[k][i] = <<>>
          THEN r = <<>>
          ELSE \E k \in DOMAIN ends, i \in Positions :
                 /\ ends[k][i] # <<>>
                 /\ \A j \in 1..(k - 1), h \in Positions : ends[j][h] = <<>>
                 /\ \A h \in 1..(i - 1) : ends[k][h] = <<>>
                 /\ r = SubSeq(cleaned, i, Head(ends[k][i]) - 1)

\* C10 witness: the result is a match of the first pattern although a later
\* pattern matches earlier in the text
C10_Witness ==
  LET cleaned == CleanText(priceIn)
      ends == PatternEnds(cleaned)
  IN /\ priceOut # {}
     /\ \E i \in 1..Len(cleaned) :
          /\ ends[1][i] # <<>>
          /\ priceOut = {SubSeq(cleaned, i, Head(ends[1][i]) - 1)}
          /\ \E k \in 2..Len(DeclaredPatternOrder), h \in 1..(i - 1) :
               ends[k][h] # <<>>

\* C12: cookie dismissal tries the consent-button candidates in their fixed
\* order; a candidate found clickable is clicked and the phase ends with that
\* click, so an attempt clicks at most once; every step of the phase either
\* moves to the next candidate or ends the phase in locating the flight cards
\* with no exception raised.
C12_OneClickThenLocate ==
  /\ [](clicks <= 1)
  /\ [](pc \in {"COOKIE_DISMISS", "LOCATING_CARDS"} => pending = "none")
  /\ [][pc = "COOKIE_DISMISS" =>
          \/ /\ pc' = "COOKIE_DISMISS"
             /\ cookieIdx' = cookieIdx + 1
             /\ clicks' = clicks
          \/ /\ pc' = "LOCATING_CARDS"
             /\ locIdx' = 1
             /\ pending' = "none"
             /\ clicks' \in {clicks, clicks + 1}]_vars

\* C12 without the click count: what every step of the phase does
C12_PhaseEndsInLocating ==
  /\ [](pc \in {"COOKIE_DISMISS", "LOCATING_CARDS"} => pending = "none")
  /\ [][pc = "COOKIE_DISMISS" =>
          \/ /\ pc' = "COOKIE_DISMISS"
             /\ cookieIdx' = cookieIdx + 1
          \/ /\ pc' = "LOCATING_CARDS"
             /\ locIdx' = 1
             /\ pending' = "none"]_vars
\* the fault of C13: a WebDriverException other than TimeoutException, caught
\* by fetch_return_flights while locating cards or extracting from them
DriverFaultCaught ==
  /\ raised.exc = "WebDriverException"
  /\ raised.during \in {"LOCATING_CARDS", "EXTRACTING"}

LineOfFlight(i) ==
  csv.lines[Len(csvAtStart.lines) + (IF csvAtStart.exists THEN 0 ELSE 1) + i]

\* C14: once main has started the driver, scraper.close is called exactly once
\* on every way out of main (fetch_return_flights returned, an exception left
\* it, or append_csv raised) and never before; and a run that returns normally
\* has appended as many rows as options were returned, in their order, every
\* row with the run's one capture timestamp.
C14_ClosedOnceRowsMatch ==
  /\ closeCalls <= 1
  /\ pc \notin {"DONE", "CRASHED"} => closeCalls = 0
  /\ pc \in {"DONE", "CRASHED"} /\ driver # "none" =>
        closeCalls = 1 /\ driver = "quit"
  /\ pc = "DONE" =>
        /\ pending = "none"
        /\ appendCalls = Len(flights)
        /\ Cardinality(RowsOfRun) = Len(flights)
        /\ \A i \in DOMAIN flights :
             LET line == LineOfFlight(i)
                 flight == flights[i]
             IN /\ line[1] = LineOfFlight(1)[1]
                /\ line[1] = timestamp
                /\ line[4] = flight.flight_date
                              \o (IF flight.depart_time = <<>> THEN <<>>
                                  ELSE <<"T">> \o flight.depart_time)
                /\ line[5] = flight.flight_date
                              \o (IF flight.return_time = <<>> THEN <<>>
                                  ELSE <<"T">> \o flight.return_time)
                /\ line[6] = (IF flight.price = {} THEN <<>>
                              ELSE CHOOSE p \in flight.price : TRUE)
                /\ line[7] = flight.currency
                /\ line[8] = <<flight.status>>

\* C14 witness: a run that returned four options, appended their four rows and
\* closed the driver once
C14_Witness ==
  /\ pc = "DONE"
  /\ Len(flights) = 4
  /\ flights[1].status # flights[3].status
  /\ appendCalls = 4
  /\ closeCalls = 1
====
